---- MODULE Spec2Model ----
(***************************************************************************)
(* MultiLock (src/multilock.py) and the runone wrapper (src/runone.py):    *)
(* a lock is a directory <group>/<name>/ holding <name>.lock (pending) or  *)
(* <name>.locked (acquired), whose text is "<hostname> <pid>".             *)
(*                                                                         *)
(* Every process p is one MultiLock object of one operating-system        *)
(* process; its steps are the system calls of the method it is running.    *)
(***************************************************************************)
EXTENDS Integers, Sequences, FiniteSets, TLC

\* ------------------------------------------------------------------ bounds
\* Processes of SpecCall: the caller of a method and the owner of the lock.
NCallers == 2
\* Processes that call the methods of MultiLock concurrently (Spec).
NRacers == 2
\* Processes that run _runone (SpecRunone).
NRunners == 4
\* The age of the lock directory (seconds since its mtime) saturates here.
MaxAge == 1
\* Calls made one after the other in SpecHandover.
MaxCalls == 4
\* The longest timeout of wait() that the model lets elapse, in seconds.
MaxWait == 1

Callers == 1..NCallers
Racers == 1..NRacers
Runners == 1..NRunners
\* The process that crashed holding the lock before SpecRunone begins.
Crashed == NRunners + 1
\* Processes are numbered; the number is also the process id.
Procs == 1..Crashed
\* A file is named by the process that created it (its inode).
NoFile == 0
\* maxage arguments; 0 stands for None (both are false in "if maxage").
MaxAges == 0..MaxAge

\* ------------------------------------------------------------------ text
\* Text is a sequence of one-character strings.
HostA == <<"a">>
HostB == <<"b">>
Hosts == {HostA, HostB}
Uids == {"u", "v"}

DigitChars == <<"0", "1", "2", "3", "4", "5", "6", "7", "8", "9">>
IsDigit(c) == \E i \in 1..10 : DigitChars[i] = c
DigitVal(c) == (CHOOSE i \in 1..10 : DigitChars[i] = c) - 1

RECURSIVE Digits(_)
Digits(n) ==
    IF n < 10 THEN <<DigitChars[n + 1]>>
    ELSE Digits(n \div 10) \o <<DigitChars[(n % 10) + 1]>>

\* str(n) of a Python integer.
Str(n) == IF n < 0 THEN <<"-">> \o Digits(0 - n) ELSE Digits(n)

RECURSIVE Tokens(_, _)
Tokens(s, cur) ==
    IF s = <<>> THEN (IF cur = <<>> THEN <<>> ELSE <<cur>>)
    ELSE IF Head(s) = " "
         THEN (IF cur = <<>> THEN Tokens(Tail(s), <<>>)
               ELSE <<cur>> \o Tokens(Tail(s), <<>>))
         ELSE Tokens(Tail(s), Append(cur, Head(s)))

\* text.strip().split(): the maximal runs of non-blank characters.
Split(s) == Tokens(s, <<>>)

RECURSIVE DigitsValue(_)
DigitsValue(t) ==
    IF t = <<>> THEN 0
    ELSE 10 * DigitsValue(SubSeq(t, 1, Len(t) - 1)) + DigitVal(t[Len(t)])

Unsigned(t) == IF t # <<>> /\ Head(t) \in {"-", "+"} THEN Tail(t) ELSE t
\* int(t) raises ValueError unless t is an optionally signed run of digits.
IntOK(t) == Unsigned(t) # <<>> /\ \A i \in 1..Len(Unsigned(t)) : IsDigit(Unsigned(t)[i])
ToInt(t) ==
    IF t # <<>> /\ Head(t) = "-" THEN 0 - DigitsValue(Unsigned(t))
    ELSE DigitsValue(Unsigned(t))

\* ------------------------------------------------------------------ state
VARIABLES
    groupDir,    \* the lockgroup directory exists
    lockDir,     \* the lock directory <group>/<name> exists
    age,         \* seconds since the lock directory's mtime (0 when absent)
    lockfile,    \* the file at <name>.lock (NoFile, or its creator)
    lockedfile,  \* the file at <name>.locked (NoFile, or its creator)
    data,        \* data[q]: the text of the file created by q
    hostname,    \* self.hostname of each process
    ospid,       \* os.getpid() of each process
    nohup,       \* self.nohup of each process
    uid,         \* the user each process runs as
    pc,          \* where each process is
    top,         \* the public method each process is in ("none" outside)
    maxage,      \* the maxage argument of that call, until it is used
    stage,       \* the call of _runone a runone process is at ("none" otherwise)
    sibling,     \* another lock of the same lockgroup, and its holder's release
    wt,          \* wt[p]: the wait() p is in: time left, an rmdir has failed
    pre,         \* <<the disk before the observed calls>>, <<>> when none is
    done,        \* the last return of an observed call: who, what, with what
    seen         \* the observed calls before the last one, in order

fsvars == <<groupDir, lockDir, age, lockfile, lockedfile, data>>
cfgvars == <<hostname, ospid, nohup, uid>>
\* What the methods on this lock, wait() aside, only read.
envvars == <<cfgvars, sibling, wt>>
procvars == <<pc, top, maxage, stage, done>>
hist == <<pre, seen>>
vars == <<fsvars, envvars, procvars, hist>>

Disk == [groupDir |-> groupDir, lockDir |-> lockDir, age |-> age,
         lockfile |-> lockfile, lockedfile |-> lockedfile, data |-> data,
         sibling |-> sibling]

\* The sibling lock: "held" (its directory is in the group), "rmdir" (its
\* holder's release has removed it and is about to rmdir the group), "gone".
SiblingDir == sibling = "held"

\* wait(): a timeout too long to elapse, and the state outside wait().
Long == MaxWait + 1
NoWait == [left |-> 0, failed |-> FALSE]
Waiting(p) == pc[p] \in {"w_check", "w_rmdir"}

\* self.pid: os.getpid(), or -1 for a nohup lock.
Pid(p) == IF nohup[p] THEN 0 - 1 ELSE ospid[p]

\* hostname + ' ' + str(pid), the text acquire writes.
Record(p) == hostname[p] \o <<" ">> \o Str(Pid(p))

Running(q) == pc[q] # "dead"

\* os.kill(n, 0) called by process c: the signal-0 probe of pid n on c's host.
Kill(c, n) ==
    LET target == {q \in Procs : Running(q) /\ hostname[q] = hostname[c] /\ ospid[q] = n}
    IN  IF target = {} THEN "ESRCH"
        ELSE IF \E q \in target : uid[q] = uid[c] THEN "ok"
        ELSE "EPERM"

\* ------------------------------------------------------------------ verify
\* verify() that compares the host alone.
VerifyHostOnly(p) ==
    /\ lockedfile # NoFile
    /\ LET t == Split(data[lockedfile])
       IN  Len(t) = 2 /\ t[1] = hostname[p]

\* verify() that takes any negative pid for the -1 of a nohup lock.
VerifyAtSign(d, p) ==
    /\ d.lockedfile # NoFile
    /\ LET t == Split(d.data[d.lockedfile])
       IN  /\ Len(t) = 2
           /\ t[1] = hostname[p]
           /\ IntOK(t[2])
           /\ \/ ToInt(t[2]) = Pid(p)
              \/ ToInt(t[2]) < 0 /\ Pid(p) < 0

\* verify() on disk d: open and read <name>.locked, split it in two, compare
\* both with self; any exception gives 0.
VerifyAt(d, p) ==
    /\ d.lockedfile # NoFile
    /\ LET t == Split(d.data[d.lockedfile])
       IN  /\ Len(t) = 2
           /\ t[1] = hostname[p]
           /\ IntOK(t[2])
           /\ ToInt(t[2]) = Pid(p)

Verify(p) == VerifyAt(Disk, p)

\* ------------------------------------------------------------------ steps
\* The method goes on to its next system call.
Goto(p, l) ==
    /\ pc' = [pc EXCEPT ![p] = l]
    /\ UNCHANGED <<top, maxage, stage, done>>

\* _runone (src/runone.py 47-50): func runs when acquire returned true, then
\* release; leaving _runone destroys the lock object, whose __del__ calls
\* release (again), and the process ends.
AfterPc(p, v) ==
    CASE stage[p] = "none" -> "idle"
      [] stage[p] = "acquire" -> IF v = "1" THEN "func" ELSE "idle"
      [] stage[p] = "release" -> "idle"
      [] stage[p] = "del" -> "dead"

AfterStage(p, v) ==
    CASE stage[p] = "none" -> "none"
      [] stage[p] = "acquire" -> IF v = "1" THEN "release" ELSE "del"
      [] stage[p] = "release" -> "del"
      [] stage[p] = "del" -> "none"

\* Calls are observed when pre holds the disk they began on: p calls
\* method(m), which has returned v ("none": it is still running) ...
Called(p, method, m, v) ==
    done' = IF pre # <<>>
            THEN [p |-> p, method |-> method, maxage |-> m, ret |-> v]
            ELSE done

\* ... and the running call returns v.
Returned(v) == done' = IF pre # <<>> THEN [done EXCEPT !.ret = v] ELSE done

\* What the caller of the public method gets when the method it is built on
\* gives v: __enter__ returns self when acquire() is true and raises
\* MultiLockDeniedException otherwise, __exit__ returns None; what either
\* raises goes through.
Outcome(p, v) ==
    CASE top[p] = "enter" /\ v = "1" -> "self"
      [] top[p] = "enter" /\ v = "0" -> "Denied"
      [] top[p] = "exit" /\ v \in {"0", "1"} -> "None"
      [] OTHER -> v

\* A public method returns v (or raises it) to its caller.
Return(p, v) ==
    /\ pc' = [pc EXCEPT ![p] = AfterPc(p, v)]
    /\ stage' = [stage EXCEPT ![p] = AfterStage(p, v)]
    /\ top' = [top EXCEPT ![p] = "none"]
    /\ maxage' = [maxage EXCEPT ![p] = 0]
    /\ Returned(Outcome(p, v))

\* verify() called directly: the bare "except:" turns every failure into 0.
VerifyCall(p) ==
    /\ pc[p] = "idle"
    /\ Called(p, "verify", 0, IF Verify(p) THEN "1" ELSE "0")
    /\ UNCHANGED <<pc, top, maxage, stage, fsvars, envvars>>

\* __init__: the object is built and _lockgroup() makes the group directory.
Construct(p) ==
    /\ pc[p] = "new"
    /\ groupDir' = TRUE
    /\ Goto(p, "idle")
    /\ UNCHANGED <<lockDir, age, lockfile, lockedfile, data, envvars, hist>>

\* acquire(maxage), to its first system call: verify(). The holder skips the
\* whole "if not self.verify()" block and falls to the final "return 0".
Acquire(p, m) ==
    /\ pc[p] = "idle"
    /\ IF Verify(p)
       THEN /\ pc' = [pc EXCEPT ![p] = AfterPc(p, "0")]
            /\ stage' = [stage EXCEPT ![p] = AfterStage(p, "0")]
            /\ Called(p, "acquire", m, "0")
            /\ UNCHANGED <<top, maxage>>
       ELSE /\ pc' = [pc EXCEPT ![p] = IF m # 0 THEN "cl_stat" ELSE "acq_group"]
            /\ top' = [top EXCEPT ![p] = "acquire"]
            /\ maxage' = [maxage EXCEPT ![p] = m]
            /\ Called(p, "acquire", m, "none")
            /\ UNCHANGED stage
    /\ UNCHANGED <<fsvars, envvars>>

\* acquire: self._lockgroup()
AcqGroup(p) ==
    /\ pc[p] = "acq_group"
    /\ groupDir' = TRUE
    /\ Goto(p, "acq_mkdir")
    /\ UNCHANGED <<lockDir, age, lockfile, lockedfile, data, envvars, hist>>

\* mkdir that takes an existing directory for its own.
AcqMkdirExistOk(p) ==
    /\ pc[p] = "acq_mkdir"
    /\ IF groupDir
       THEN /\ lockDir' = TRUE
            /\ age' = IF lockDir THEN age ELSE 0
            /\ Goto(p, "acq_open")
       ELSE /\ Return(p, "0")
            /\ UNCHANGED <<lockDir, age>>
    /\ UNCHANGED <<groupDir, lockfile, lockedfile, data, envvars, hist>>

\* acquire: os.mkdir(dirname(lockfile)); OSError when the directory exists
\* or the group directory is gone.
AcqMkdir(p) ==
    /\ pc[p] = "acq_mkdir"
    /\ IF groupDir /\ ~lockDir
       THEN /\ lockDir' = TRUE
            /\ age' = 0
            /\ Goto(p, "acq_open")
       ELSE /\ Return(p, "0")
            /\ UNCHANGED <<lockDir, age>>
    /\ UNCHANGED <<groupDir, lockfile, lockedfile, data, envvars, hist>>

\* acquire: os.open(lockfile, O_CREAT|O_EXCL|O_RDWR)
AcqOpen(p) ==
    /\ pc[p] = "acq_open"
    /\ IF lockDir /\ lockfile = NoFile
       THEN /\ lockfile' = p
            /\ data' = [data EXCEPT ![p] = <<>>]
            /\ age' = 0
            /\ Goto(p, "acq_write")
       ELSE /\ Return(p, "0")
            /\ UNCHANGED <<lockfile, data, age>>
    /\ UNCHANGED <<groupDir, lockDir, lockedfile, envvars, hist>>

\* acquire: os.write, os.fsync, os.close on the descriptor opened above (the
\* file it names may have been unlinked or renamed since).
AcqWrite(p) ==
    /\ pc[p] = "acq_write"
    /\ data' = IF p \in {lockfile, lockedfile}
               THEN [data EXCEPT ![p] = Record(p)]
               ELSE data   \* an unlinked file: nobody can read it again
    /\ Goto(p, "acq_rename")
    /\ UNCHANGED <<groupDir, lockDir, age, lockfile, lockedfile, envvars, hist>>

\* acquire: os.rename(lockfile, lockedfile), whatever file is at lockfile now.
AcqRename(p) ==
    /\ pc[p] = "acq_rename"
    /\ IF lockfile # NoFile
       THEN /\ lockedfile' = lockfile
            /\ lockfile' = NoFile
            /\ age' = 0
            /\ Goto(p, "acq_verify")
       ELSE /\ Return(p, "0")
            /\ UNCHANGED <<lockfile, lockedfile, age>>
    /\ UNCHANGED <<groupDir, lockDir, data, envvars, hist>>

\* acquire: return self.verify()
AcqVerify(p) ==
    /\ pc[p] = "acq_verify"
    /\ Return(p, IF Verify(p) THEN "1" ELSE "0")
    /\ UNCHANGED <<fsvars, envvars, hist>>

\* shutil.rmtree(dirname(lockedfile)) on an existing directory.
Rmtree ==
    /\ lockDir' = FALSE
    /\ age' = 0
    /\ lockfile' = NoFile
    /\ lockedfile' = NoFile
    /\ data' = [q \in Procs |-> IF q \in {lockfile, lockedfile} THEN <<>> ELSE data[q]]

\* ------------------------------------------------------------------ cleanup
\* cleanup() returns v (or raises it): to the caller of the public method, or
\* into acquire, which ignores the value and goes on with _lockgroup().
ClReturn(p, v) ==
    IF top[p] = "acquire" /\ v \in {"0", "1"}
    THEN Goto(p, "acq_group")
    ELSE Return(p, v)

\* cleanup that takes "permission denied" for "no such process".
ClVerdictEperm(p) ==
    IF lockedfile = NoFile THEN "0"
    ELSE LET t == Split(data[lockedfile])
         IN  IF Len(t) # 2 THEN "0"
             ELSE IF t[1] # hostname[p] THEN "0"
             ELSE IF ~IntOK(t[2]) THEN "ValueError"
             ELSE IF ToInt(t[2]) < 0 THEN "1"
             ELSE IF ToInt(t[2]) > 0 /\ Kill(p, ToInt(t[2])) # "ok" THEN "rmtree"
             ELSE "0"

\* cleanup that probes the pid of any host's record.
ClVerdictAnyHost(p) ==
    IF lockedfile = NoFile THEN "0"
    ELSE LET t == Split(data[lockedfile])
         IN  IF Len(t) # 2 THEN "0"
             ELSE IF ~IntOK(t[2]) THEN "ValueError"
             ELSE IF ToInt(t[2]) < 0 THEN "1"
             ELSE IF ToInt(t[2]) > 0 /\ Kill(p, ToInt(t[2])) = "ESRCH" THEN "rmtree"
             ELSE "0"

\* What cleanup does with the record it finds in <name>.locked, after
\* os.path.isfile said the file is there (lines 156-179).
ClVerdict(p) ==
    IF lockedfile = NoFile THEN "0"          \* open() fails: qhostname is None
    ELSE LET t == Split(data[lockedfile])
         IN  IF Len(t) # 2 THEN "0"          \* the unpacking fails: None
             ELSE IF t[1] # hostname[p] THEN "0"
             ELSE IF ~IntOK(t[2]) THEN "ValueError"
             ELSE IF ToInt(t[2]) < 0 THEN "1"
             ELSE IF ToInt(t[2]) > 0 /\ Kill(p, ToInt(t[2])) = "ESRCH" THEN "rmtree"
             ELSE "0"

\* cleanup(maxage) called directly.
Cleanup(p, m) ==
    /\ pc[p] = "idle"
    /\ pc' = [pc EXCEPT ![p] = IF m # 0 THEN "cl_stat" ELSE "cl_isfile"]
    /\ top' = [top EXCEPT ![p] = IF m # 0 THEN "cleanup_maxage" ELSE "cleanup"]
    /\ maxage' = [maxage EXCEPT ![p] = m]
    /\ Called(p, "cleanup", m, "none")
    /\ UNCHANGED <<stage, fsvars, envvars>>

\* The age test with > for >=.
TooOldStrict(p) == lockDir /\ age > maxage[p]

\* cleanup: the directory exists and "tdiff >= maxage".
TooOld(p) == lockDir /\ age >= maxage[p]

\* cleanup: "if maxage and os.path.exists(dirname(lockedfile))", then
\* tdiff = time.time() - os.stat(...)[8] and "if tdiff >= maxage". A directory
\* that goes away between the two calls makes stat fail, which "except: pass"
\* swallows: the outcome is that of one look at the directory.
ClStat(p) ==
    /\ pc[p] = "cl_stat"
    /\ pc' = [pc EXCEPT ![p] =
                IF TooOld(p) THEN "cl_agerm" ELSE "cl_isfile"]
    /\ maxage' = [maxage EXCEPT ![p] = 0]    \* maxage is not read again
    /\ UNCHANGED <<top, stage, done>>
    /\ UNCHANGED <<fsvars, envvars, hist>>

\* cleanup: the rmtree of the age check (its failure is swallowed too).
ClAgeRm(p) ==
    /\ pc[p] = "cl_agerm"
    /\ IF lockDir THEN Rmtree ELSE UNCHANGED <<lockDir, age, lockfile, lockedfile, data>>
    /\ Goto(p, "cl_isfile")
    /\ UNCHANGED <<groupDir, envvars, hist>>

\* cleanup: "if os.path.isfile(self.lockedfile)", else "return 1"
ClIsfile(p) ==
    /\ pc[p] = "cl_isfile"
    /\ IF lockedfile # NoFile
       THEN Goto(p, "cl_read")
       ELSE ClReturn(p, "1")
    /\ UNCHANGED <<fsvars, envvars, hist>>

\* cleanup: read the record, compare the host, probe the pid.
ClRead(p) ==
    /\ pc[p] = "cl_read"
    /\ IF ClVerdict(p) = "rmtree"
       THEN Goto(p, "cl_rmtree")
       ELSE ClReturn(p, ClVerdict(p))
    /\ UNCHANGED <<fsvars, envvars, hist>>

\* cleanup: the force release, shutil.rmtree inside the except clause; on a
\* directory that is gone it raises OSError out of cleanup.
ClRmtree(p) ==
    /\ pc[p] = "cl_rmtree"
    /\ IF lockDir
       THEN Rmtree /\ ClReturn(p, "1")
       ELSE /\ Return(p, "OSError")
            /\ UNCHANGED <<lockDir, age, lockfile, lockedfile, data>>
    /\ UNCHANGED <<groupDir, envvars, hist>>

\* ------------------------------------------------------------------ release
\* release(), to its first system call: verify().
Release(p) ==
    /\ pc[p] = "idle"
    /\ pc' = [pc EXCEPT ![p] = IF Verify(p) THEN "rel_rmtree" ELSE "cl_isfile"]
    /\ top' = [top EXCEPT ![p] = "release"]
    /\ maxage' = [maxage EXCEPT ![p] = 0]
    /\ Called(p, "release", 0, "none")
    /\ UNCHANGED <<stage, fsvars, envvars>>

\* release: shutil.rmtree(dirname(lockedfile)); when it raises, "finally:
\* return self.cleanup()" drops the exception.
RelRmtree(p) ==
    /\ pc[p] = "rel_rmtree"
    /\ IF lockDir
       THEN Rmtree /\ Goto(p, "rel_rmdir")
       ELSE /\ Goto(p, "cl_isfile")
            /\ UNCHANGED <<lockDir, age, lockfile, lockedfile, data>>
    /\ UNCHANGED <<groupDir, envvars, hist>>

\* release that empties the lockgroup directory to remove it.
RelRmdirTree(p) ==
    /\ pc[p] = "rel_rmdir"
    /\ groupDir' = (groupDir /\ lockDir)
    /\ sibling' = IF groupDir /\ ~lockDir THEN "gone" ELSE sibling
    /\ Goto(p, "cl_isfile")
    /\ UNCHANGED <<lockDir, age, lockfile, lockedfile, data, cfgvars, wt, hist>>

\* release: os.rmdir(self.lockgroup), which removes an empty directory;
\* ENOTEMPTY is passed over, any other error is dropped by the finally clause.
RelRmdir(p) ==
    /\ pc[p] = "rel_rmdir"
    /\ groupDir' = (groupDir /\ (lockDir \/ SiblingDir))
    /\ Goto(p, "cl_isfile")
    /\ UNCHANGED <<lockDir, age, lockfile, lockedfile, data, envvars, hist>>

\* ------------------------------------------------------------------ with
\* __enter__: "if self.acquire(): return self", else raise
\* MultiLockDeniedException; to acquire's first system call, verify().
Enter(p) ==
    /\ pc[p] = "idle"
    /\ IF Verify(p)
       THEN /\ Called(p, "enter", 0, "Denied")
            /\ UNCHANGED <<pc, top>>
       ELSE /\ pc' = [pc EXCEPT ![p] = "acq_group"]
            /\ top' = [top EXCEPT ![p] = "enter"]
            /\ Called(p, "enter", 0, "none")
    /\ UNCHANGED <<maxage, stage, fsvars, envvars>>

\* __exit__: "if self.verify(): self.release()"
Exit(p) ==
    /\ pc[p] = "idle"
    /\ IF Verify(p)
       THEN /\ pc' = [pc EXCEPT ![p] = "ex_release"]
            /\ top' = [top EXCEPT ![p] = "exit"]
            /\ Called(p, "exit", 0, "none")
       ELSE /\ Called(p, "exit", 0, "None")
            /\ UNCHANGED <<pc, top>>
    /\ UNCHANGED <<maxage, stage, fsvars, envvars>>

\* __exit__: release(), to its first system call: verify() again.
ExRelease(p) ==
    /\ pc[p] = "ex_release"
    /\ Goto(p, IF Verify(p) THEN "rel_rmtree" ELSE "cl_isfile")
    /\ UNCHANGED <<fsvars, envvars, hist>>

\* ------------------------------------------------------------------ wait
\* wait(timeout): "timeout = int(timeout)", "start_time = time.time()".
Wait(p, t) ==
    /\ pc[p] = "idle"
    /\ pc' = [pc EXCEPT ![p] = "w_check"]
    /\ top' = [top EXCEPT ![p] = "wait"]
    /\ wt' = [wt EXCEPT ![p] = [left |-> t, failed |-> FALSE]]
    /\ UNCHANGED <<maxage, stage, done, fsvars, cfgvars, sibling>>

\* wait() returns 1 or raises MultiLockTimeoutException; the process of
\* "runone.py --wait" then ends (src/runone.py 62-65).
WaitReturn(p, v) ==
    /\ pc' = [pc EXCEPT ![p] = IF v = "1" THEN "waited" ELSE "timedout"]
    /\ top' = [top EXCEPT ![p] = "none"]
    /\ UNCHANGED <<maxage, stage, done>>

\* wait that never looks at the clock.
WaitCheckNoClock(p) ==
    /\ pc[p] = "w_check"
    /\ IF groupDir
       THEN Goto(p, "w_rmdir")
       ELSE WaitReturn(p, "1")
    /\ UNCHANGED <<fsvars, envvars, hist>>

\* wait: the top of the loop: "if (time.time() - start_time) >= timeout:
\* raise", "elif os.path.isdir(self.lockgroup):" sleep and go on to rmdir,
\* else "return 1".
WaitCheck(p) ==
    /\ pc[p] = "w_check"
    /\ IF wt[p].left = 0
       THEN WaitReturn(p, "Timeout")
       ELSE IF groupDir
            THEN Goto(p, "w_rmdir")
            ELSE WaitReturn(p, "1")
    /\ UNCHANGED <<fsvars, envvars, hist>>

\* wait that takes a lockgroup it could not remove for a finished one.
WaitRmdirAnyway(p) ==
    /\ pc[p] = "w_rmdir"
    /\ groupDir' = (groupDir /\ (lockDir \/ SiblingDir))
    /\ WaitReturn(p, "1")
    /\ UNCHANGED <<lockDir, age, lockfile, lockedfile, data, envvars, hist>>

\* wait: after time.sleep(self.poll), os.rmdir(self.lockgroup) and
\* "return 1"; ENOTEMPTY and ENOENT are passed over and the loop goes round.
WaitRmdir(p) ==
    /\ pc[p] = "w_rmdir"
    /\ IF groupDir /\ ~lockDir /\ ~SiblingDir
       THEN /\ groupDir' = FALSE
            /\ WaitReturn(p, "1")
            /\ UNCHANGED wt
       ELSE /\ Goto(p, "w_check")
            /\ wt' = [wt EXCEPT ![p].failed = TRUE]
            /\ UNCHANGED groupDir
    /\ UNCHANGED <<lockDir, age, lockfile, lockedfile, data, cfgvars, sibling,
                   hist>>

\* ------------------------------------------------------------------ sibling
\* The holder of the sibling lock releases it: rmtree of its directory ...
SibRmtree ==
    /\ sibling = "held"
    /\ sibling' = "rmdir"
    /\ UNCHANGED <<fsvars, cfgvars, wt, procvars, hist>>

\* ... and os.rmdir(self.lockgroup).
SibRmdir ==
    /\ sibling = "rmdir"
    /\ sibling' = "gone"
    /\ groupDir' = (groupDir /\ lockDir)
    /\ UNCHANGED <<lockDir, age, lockfile, lockedfile, data, cfgvars, wt,
                   procvars, hist>>

\* ------------------------------------------------------------------ world
\* A second passes: the lock directory is a second older, every wait() has
\* a second less (the clock stops when neither can change any more).
Aging == lockDir /\ age < MaxAge
Timing(p) == Waiting(p) /\ wt[p].left \in 1..MaxWait

Tick ==
    /\ Aging \/ \E p \in Procs : Timing(p)
    /\ age' = IF Aging THEN age + 1 ELSE age
    /\ wt' = [p \in Procs |->
                IF Timing(p) THEN [wt[p] EXCEPT !.left = @ - 1] ELSE wt[p]]
    /\ UNCHANGED <<groupDir, lockDir, lockfile, lockedfile, data, cfgvars,
                   sibling, procvars, hist>>

\* The process is killed or its host goes down: nothing of it runs again.
Crash(p) ==
    /\ pc[p] \notin {"new", "dead"}
    /\ pc' = [pc EXCEPT ![p] = "dead"]
    /\ top' = [top EXCEPT ![p] = "none"]
    /\ maxage' = [maxage EXCEPT ![p] = 0]
    /\ stage' = [stage EXCEPT ![p] = "none"]
    /\ UNCHANGED <<done, fsvars, envvars, hist>>

\* ------------------------------------------------------------------ specs
NoCall == [p |-> 0, method |-> "none", maxage |-> 0, ret |-> "none"]

\* The processes of `active` in state l, the others gone.
InitProcs(active, l) ==
    /\ pc = [p \in Procs |-> IF p \in active THEN l ELSE "dead"]
    /\ top = [p \in Procs |-> "none"]
    /\ maxage = [p \in Procs |-> 0]
    /\ stage = [p \in Procs |-> "none"]
    /\ done = NoCall

Step(p) ==
    \/ AcqGroup(p) \/ AcqMkdir(p) \/ AcqOpen(p) \/ AcqWrite(p)
    \/ AcqRename(p) \/ AcqVerify(p)
    \/ ClStat(p) \/ ClAgeRm(p)
    \/ ClIsfile(p) \/ ClRead(p) \/ ClRmtree(p)
    \/ RelRmtree(p) \/ RelRmdir(p)

\* The processes of one user on one host, where the liveness probe can
\* tell them apart; none uses nohup.
InitPlain ==
    /\ wt = [p \in Procs |-> NoWait]
    /\ hostname = [p \in Procs |-> HostA]
    /\ ospid = [p \in Procs |-> p]
    /\ nohup = [p \in Procs |-> FALSE]
    /\ uid = [p \in Procs |-> "u"]

\* Nothing on disk.
EmptyDisk ==
    /\ groupDir = FALSE /\ lockDir = FALSE /\ age = 0
    /\ lockfile = NoFile /\ lockedfile = NoFile
    /\ data = [q \in Procs |-> <<>>]

\* The lock that process Crashed acquired on this host before it was killed.
StaleDisk ==
    /\ groupDir = TRUE /\ lockDir = TRUE /\ age = 0
    /\ lockfile = NoFile /\ lockedfile = Crashed
    /\ data = [q \in Procs |-> IF q = Crashed THEN Record(Crashed) ELSE <<>>]

\* ---- Spec: the methods of the racers interleaved at every system call,
\* from an empty disk or from a crashed process's lock.
Init ==
    /\ InitPlain
    /\ sibling = "gone"
    /\ EmptyDisk \/ StaleDisk
    /\ InitProcs(Racers, "new")
    /\ pre = <<>>
    /\ seen = <<>>

AnyAcquire(p) == UNCHANGED hist /\ \E m \in MaxAges : Acquire(p, m)
AnyRelease(p) == UNCHANGED hist /\ Release(p)
AnyCleanup(p) == UNCHANGED hist /\ \E m \in MaxAges : Cleanup(p, m)

Next ==
    \/ \E p \in Procs :
         \/ Construct(p)
         \/ AnyAcquire(p) \/ AnyRelease(p) \/ AnyCleanup(p)
         \/ Step(p)
         \/ Crash(p)
    \/ Tick

Spec == Init /\ [][Next]_vars

\* ---- SpecCall: one call of one method by caller c, alone, on any disk the
\* lock can be left in: nothing; or what owner q made up to the step where it
\* crashed (the directory, the empty pending file, the written pending file);
\* or q's acquired lock, with q crashed or running (inside func). The caller
\* is on host a as user u; the owner is the caller itself, or a process of
\* either host and either user, with its own process id or (on the other
\* host) the caller's; either may be a nohup lock. Or an acquired file with
\* a record that no acquire writes.
Forms == {"unlocked", "dir", "empty", "pending", "locked", "odd"}

\* Nothing, one token, three tokens, a pid that is no number (on the local
\* and on the other host), a negative pid that is not -1.
OddRecords ==
    { <<>>, <<"a">>, <<"a", " ", "1", " ", "1">>, <<"a", " ", "x">>,
      <<"b", " ", "x">>, <<"a", " ", "-", "2">> }

InitCall ==
    /\ \E c, q \in Callers, hq \in Hosts, uq \in Uids,
          samepid, nc, nq, qdead \in BOOLEAN,
          form \in Forms, a \in 0..MaxAge, g \in BOOLEAN,
          odd \in OddRecords :
         /\ q = c => hq = HostA /\ uq = "u" /\ nq = nc /\ ~qdead
         /\ samepid => hq # HostA
         /\ form = "unlocked" => q = c /\ a = 0
         /\ form # "unlocked" => g
         /\ form \in {"dir", "empty", "pending", "odd"} => q # c /\ qdead
         /\ form \in {"dir", "empty", "odd"} => hq = HostA /\ uq = "u" /\ ~nq
         /\ form # "odd" => odd = <<>>
         /\ hostname = [p \in Procs |-> IF p = q THEN hq ELSE HostA]
         /\ ospid = [p \in Procs |-> IF p = q /\ samepid THEN c ELSE p]
         /\ nohup = [p \in Procs |-> (p = c /\ nc) \/ (p = q /\ nq)]
         /\ uid = [p \in Procs |-> IF p = q THEN uq ELSE "u"]
         /\ groupDir = g
         /\ lockDir = (form # "unlocked")
         /\ age = a
         /\ lockfile = (IF form \in {"empty", "pending"} THEN q ELSE NoFile)
         /\ lockedfile = (IF form \in {"locked", "odd"} THEN q ELSE NoFile)
         /\ data = [r \in Procs |->
                      IF r = q /\ form \in {"pending", "locked"}
                      THEN Record(q)
                      ELSE IF r = q /\ form = "odd" THEN odd ELSE <<>>]
         /\ pc = [p \in Procs |->
                    IF p = c THEN "idle"
                    ELSE IF p = q /\ ~qdead THEN "func" ELSE "dead"]
    /\ sibling \in {"held", "gone"}
    /\ sibling = "held" => groupDir
    /\ wt = [p \in Procs |-> NoWait]
    /\ top = [p \in Procs |-> "none"]
    /\ maxage = [p \in Procs |-> 0]
    /\ stage = [p \in Procs |-> "none"]
    /\ done = NoCall
    /\ pre = <<Disk>>
    /\ seen = <<>>

\* No call has been made yet.
Fresh == done = NoCall

CallAcquire(p) == Fresh /\ UNCHANGED hist /\ \E m \in MaxAges : Acquire(p, m)
CallRelease(p) == Fresh /\ UNCHANGED hist /\ Release(p)
CallCleanup(p) == Fresh /\ UNCHANGED hist /\ \E m \in MaxAges : Cleanup(p, m)
CallVerify(p) == Fresh /\ UNCHANGED hist /\ VerifyCall(p)

NextCall ==
    \/ \E p \in Procs :
         \/ CallAcquire(p) \/ CallRelease(p) \/ CallCleanup(p)
         \/ CallVerify(p)
         \/ Step(p)
    \/ Tick

SpecCall == InitCall /\ [][NextCall]_vars

\* ---- SpecRunone: every runner runs _runone(func, ...) on the same lock.
InitRunone ==
    /\ InitPlain
    /\ sibling = "gone"
    /\ EmptyDisk \/ StaleDisk
    /\ pc = [p \in Procs |-> IF p \in Runners THEN "new" ELSE "dead"]
    /\ top = [p \in Procs |-> "none"]
    /\ maxage = [p \in Procs |-> 0]
    /\ stage = [p \in Procs |-> IF p \in Runners THEN "acquire" ELSE "none"]
    /\ done = NoCall
    /\ pre = <<>>
    /\ seen = <<>>

\* _runone: "if lock.acquire():"
RunAcquire(p) == stage[p] = "acquire" /\ UNCHANGED hist /\ Acquire(p, 0)

\* _runone: func(*args, **kwargs) runs and returns.
RunFunc(p) ==
    /\ pc[p] = "func"
    /\ Goto(p, "idle")
    /\ UNCHANGED <<fsvars, envvars, hist>>

\* _runone: lock.release()
RunRelease(p) == stage[p] = "release" /\ UNCHANGED hist /\ Release(p)

\* __del__: "if not self.nohup: self.release()"
RunDel(p) == stage[p] = "del" /\ ~nohup[p] /\ UNCHANGED hist /\ Release(p)

NextRunone ==
    \E p \in Procs :
       \/ Construct(p)
       \/ RunAcquire(p) \/ RunFunc(p) \/ RunRelease(p) \/ RunDel(p)
       \/ AcqGroup(p) \/ AcqMkdir(p) \/ AcqOpen(p) \/ AcqWrite(p)
       \/ AcqRename(p) \/ AcqVerify(p)
       \/ ClIsfile(p) \/ ClRead(p) \/ ClRmtree(p)
       \/ RelRmtree(p) \/ RelRmdir(p)

SpecRunone == InitRunone /\ [][NextRunone]_vars

\* ---- SpecHandover: processes A (1, on host a) and B (2, on host b) call
\* acquire() and release() one after the other, from an empty disk.
A == NoFile + 1
B == A + 1

InitHandover ==
    /\ EmptyDisk
    /\ sibling = "gone"
    /\ wt = [p \in Procs |-> NoWait]
    /\ hostname = [p \in Procs |-> IF p = B THEN HostB ELSE HostA]
    /\ \E i \in {A, B} : ospid = [p \in Procs |-> IF p = B THEN i ELSE p]
    /\ nohup = [p \in Procs |-> FALSE]
    /\ uid = [p \in Procs |-> "u"]
    /\ InitProcs({A, B}, "new")
    /\ pre = <<Disk>>
    /\ seen = <<>>

\* All the calls made so far, the last one included once it has returned.
History == IF done.ret = "none" THEN seen ELSE Append(seen, done)

\* The next call begins when the last one has returned.
NextInLine ==
    /\ \A q \in Procs : pc[q] \in {"new", "idle", "dead"}
    /\ Len(History) < MaxCalls
    /\ seen' = History
    /\ UNCHANGED pre

HandAcquire(p) == NextInLine /\ Acquire(p, 0)
HandRelease(p) == NextInLine /\ Release(p)

NextHandover ==
    \E p \in {A, B} :
       \/ Construct(p)
       \/ HandAcquire(p) \/ HandRelease(p)
       \/ AcqGroup(p) \/ AcqMkdir(p) \/ AcqOpen(p) \/ AcqWrite(p)
       \/ AcqRename(p) \/ AcqVerify(p)
       \/ ClIsfile(p) \/ ClRead(p)
       \/ RelRmtree(p) \/ RelRmdir(p)

SpecHandover == InitHandover /\ [][NextHandover]_vars

\* ---- SpecGroup: process A acquires and releases the lock, again and again,
\* while process B of "runone.py --wait" waits for the lockgroup and the
\* holder of a sibling lock releases it.
WaitTimes == (0..MaxWait) \cup {Long}

InitGroup ==
    /\ InitPlain
    /\ \E g \in BOOLEAN :
         /\ groupDir = g
         /\ sibling = IF g THEN "held" ELSE "gone"
    /\ lockDir = FALSE /\ age = 0
    /\ lockfile = NoFile /\ lockedfile = NoFile
    /\ data = [q \in Procs |-> <<>>]
    /\ InitProcs({A, B}, "new")
    /\ pre = <<Disk>>
    /\ seen = <<>>

\* The disk each acquire begins on is kept.
GroupAcquire(p) == pre' = <<Disk>> /\ UNCHANGED seen /\ Acquire(p, 0)
GroupRelease(p) == UNCHANGED hist /\ Release(p)
GroupWait(p) == UNCHANGED hist /\ \E t \in WaitTimes : Wait(p, t)

NextGroup ==
    \/ Construct(A) \/ Construct(B)
    \/ GroupAcquire(A) \/ GroupRelease(A)
    \/ AcqGroup(A) \/ AcqMkdir(A) \/ AcqOpen(A) \/ AcqWrite(A)
    \/ AcqRename(A) \/ AcqVerify(A)
    \/ RelRmtree(A) \/ RelRmdir(A) \/ ClIsfile(A)
    \/ GroupWait(B) \/ WaitCheck(B) \/ WaitRmdir(B)
    \/ SibRmtree \/ SibRmdir
    \/ Tick

SpecGroup == InitGroup /\ [][NextGroup]_vars

\* The waiting process is scheduled and time passes.
FairGroup ==
    /\ InitGroup /\ [][NextGroup]_vars
    /\ WF_vars(WaitCheck(B)) /\ WF_vars(WaitRmdir(B)) /\ WF_vars(Tick)

\* ---- SpecGuard: one "with" block of one caller, alone, on any disk of
\* SpecCall: __enter__, and __exit__ when __enter__ returned.
GuardEnter(p) == Fresh /\ UNCHANGED hist /\ Enter(p)

GuardExit(p) ==
    /\ seen = <<>>
    /\ done.p = p /\ done.method = "enter" /\ done.ret = "self"
    /\ seen' = <<done>>
    /\ UNCHANGED pre
    /\ Exit(p)

NextGuard ==
    \E p \in Procs :
       \/ GuardEnter(p) \/ GuardExit(p)
       \/ AcqGroup(p) \/ AcqMkdir(p) \/ AcqOpen(p) \/ AcqWrite(p)
       \/ AcqRename(p) \/ AcqVerify(p)
       \/ ExRelease(p) \/ RelRmtree(p) \/ RelRmdir(p) \/ ClIsfile(p)

SpecGuard == InitCall /\ [][NextGuard]_vars

\* ------------------------------------------------------------------ claims
\* The identity of a lock object: (host, pid).
Ident(p) == <<hostname[p], Pid(p)>>

C2_OneInFunc == Cardinality({p \in Procs : pc[p] = "func"}) <= 1

\* ---- the calls of SpecCall
Before == pre[1]
Caller == done.p
ReturnedFrom(method) == done.method = method /\ done.ret # "none"

\* The disk is as the call found it (the age aside, which time moves).
Untouched ==
    /\ groupDir = Before.groupDir
    /\ lockDir = Before.lockDir
    /\ lockfile = Before.lockfile
    /\ lockedfile = Before.lockedfile
    /\ data = Before.data
    /\ age >= Before.age

\* The acquired record the call found, as tokens.
Rec == IF Before.lockedfile = NoFile THEN <<>>
       ELSE Split(Before.data[Before.lockedfile])
RecWellFormed == Len(Rec) = 2 /\ IntOK(Rec[2])
RecHost == Rec[1]
RecPid == ToInt(Rec[2])

\* C3: acquire by the identity that holds the lock returns true and leaves
\* the disk as it was.
C3_Reacquire ==
    ReturnedFrom("acquire") /\ VerifyAt(Before, Caller)
        => done.ret = "1" /\ Untouched

\* C4: when release() returns true, verify() of the caller is false and the
\* lock directory does not exist, whatever the disk was.
C4_ReleaseComplete ==
    ReturnedFrom("release") /\ done.ret = "1"
        => ~Verify(Caller) /\ ~lockDir

\* C5: on a pending artifact (directory and .lock file, no .locked file)
\* whose owner is dead, acquire by another identity returns true.
C5_CrashRecovery ==
    /\ ReturnedFrom("acquire")
    /\ Before.lockDir /\ Before.lockedfile = NoFile
    /\ Before.lockfile # NoFile
    /\ ~Running(Before.lockfile)
    /\ Ident(Before.lockfile) # Ident(Caller)
    => done.ret = "1"

\* C6: on a record (local host, pid > 0), cleanup() removes the lock
\* directory and returns true when the probe finds no such process; it
\* returns false and leaves the disk alone when the probe finds the process
\* or is denied.
C6_LivenessReclaim ==
    /\ ReturnedFrom("cleanup") /\ done.maxage = 0
    /\ RecWellFormed
    /\ RecHost = hostname[Caller] /\ RecPid > 0
    => IF Kill(Caller, RecPid) = "ESRCH"
       THEN done.ret = "1" /\ ~lockDir
       ELSE done.ret = "0" /\ Untouched

\* cleanup() has reclaimed the lock of a dead local process.
C6_Witness ==
    /\ ReturnedFrom("cleanup") /\ done.maxage = 0
    /\ RecWellFormed
    /\ RecHost = hostname[Caller] /\ RecPid > 0
    /\ Kill(Caller, RecPid) = "ESRCH"
    /\ done.ret = "1" /\ ~lockDir

\* C7: on a record of another host, cleanup() leaves the disk alone and
\* returns false, whatever the pid and whatever the local probe says of it.
C7_RemoteHost ==
    /\ ReturnedFrom("cleanup") /\ done.maxage = 0
    /\ Len(Rec) = 2
    /\ RecHost # hostname[Caller]
    => done.ret = "0" /\ Untouched

\* cleanup() has left a remote record whose pid is no process of this host.
C7_Witness ==
    /\ ReturnedFrom("cleanup") /\ done.maxage = 0
    /\ RecWellFormed
    /\ RecHost # hostname[Caller]
    /\ RecPid > 0 /\ Kill(Caller, RecPid) = "ESRCH"
    /\ done.ret = "0" /\ lockDir

\* C8: on the record (local host, -1), cleanup() leaves the lock directory
\* and returns false; it returns true only when no acquired lock is left.
C8_Persistent ==
    ReturnedFrom("cleanup") /\ done.maxage = 0
    => /\ (RecWellFormed /\ RecHost = hostname[Caller] /\ RecPid = 0 - 1
             => done.ret = "0" /\ lockDir)
       /\ (done.ret = "1" => lockedfile = NoFile)

\* ---- C9
\* The call is acquire(maxage) or cleanup(maxage) on a lock directory at
\* least maxage old.
Aged ==
    /\ done.method \in {"acquire", "cleanup"}
    /\ done.maxage > 0
    /\ Before.lockDir
    /\ Before.age >= done.maxage

\* The call has removed the directory: it is gone when the age check is
\* over, the call does not return with the disk as it found it, and
\* cleanup returns true with the directory gone.
AgeForced ==
    /\ pc[Caller] \in {"cl_isfile", "acq_group"} => ~lockDir
    /\ done.ret # "none" => ~Untouched
    /\ ReturnedFrom("cleanup") => done.ret = "1" /\ ~lockDir

\* C9 as stated: whoever the recorded owner is, the caller itself included.
C9_AgeForce == Aged => AgeForced

\* C9 amended: acquire(maxage) by the holder itself leaves the lock alone.
C9_AgeForceOthers ==
    Aged =>
      IF done.method = "acquire" /\ VerifyAt(Before, Caller)
      THEN done.ret # "none" /\ Untouched
      ELSE AgeForced

\* acquire(maxage) has taken over the aged lock of a running process of
\* this host.
C9_Witness ==
    /\ Aged
    /\ ReturnedFrom("acquire")
    /\ RecWellFormed /\ RecHost = hostname[Caller] /\ RecPid > 0
    /\ Kill(Caller, RecPid) = "ok"
    /\ ~VerifyAt(Before, Caller)
    /\ Verify(Caller)

\* ---- C10
Script == <<[p |-> A, method |-> "acquire"], [p |-> B, method |-> "acquire"],
            [p |-> A, method |-> "release"], [p |-> B, method |-> "acquire"]>>
Expected == <<"1", "0", "1", "1">>

\* The first k calls were those of the script.
OnScript(k) ==
    /\ k <= Len(History)
    /\ \A j \in 1..k :
         History[j].p = Script[j].p /\ History[j].method = Script[j].method

\* C10: from an unlocked lock, A.acquire, B.acquire, A.release, B.acquire
\* return true, false, true, true.
C10_Handover ==
    \A k \in 1..Len(Script) : OnScript(k) => History[k].ret = Expected[k]

\* The four calls of the script have been made and have returned.
C10_Witness ==
    /\ OnScript(Len(Script))
    /\ \A k \in 1..Len(Script) : History[k].ret = Expected[k]

\* ---- C11, C12
WaitOver(p) == pc[p] \in {"waited", "timedout"}

\* C11: wait returns success only on a probe that found the lockgroup
\* directory absent, or found it without any lock directory and removed it;
\* at the top of the loop with the timeout elapsed it raises Timeout.
C11_Barrier ==
    [][\A p \in Procs :
         /\ pc[p] # "waited" /\ pc'[p] = "waited"
              => \/ pc[p] = "w_check" /\ ~groupDir
                 \/ /\ pc[p] = "w_rmdir"
                    /\ groupDir /\ ~lockDir /\ ~SiblingDir
                    /\ ~groupDir'
         /\ pc[p] = "w_check" /\ wt[p].left = 0 /\ pc'[p] # pc[p]
              => pc'[p] = "timedout"]_vars

\* wait has returned success, before its timeout, after an rmdir that
\* failed on a lockgroup that was not empty.
C11_Witness ==
    /\ pc[B] = "waited"
    /\ wt[B].failed /\ wt[B].left \in 1..MaxWait
    /\ ~groupDir

\* C12: wait terminates; and when from some time on no lock directory is
\* left in the group, a wait whose timeout does not elapse returns success.
C12_BarrierLiveness ==
    /\ Waiting(B) /\ wt[B].left # Long ~> WaitOver(B)
    /\ <>[](~lockDir /\ ~SiblingDir)
         => [](Waiting(B) /\ wt[B].left = Long => <>(pc[B] = "waited"))

\* A wait with a long timeout has returned success after an rmdir that
\* failed while a lock was held.
C12_Witness ==
    /\ pc[B] = "waited"
    /\ wt[B].failed /\ wt[B].left = Long

\* C20: acquire on an unlocked lock that no other process touches returns
\* true, also while another process waits for the lockgroup or releases a
\* sibling lock.
C20_OnlyContention ==
    ReturnedFrom("acquire") /\ ~Before.lockDir => done.ret = "1"

\* C19: release by the holder returns true, leaves the sibling lock as it
\* was, and removes the lockgroup directory exactly when no sibling lock
\* directory remains.
C19_Siblings ==
    ReturnedFrom("release") /\ VerifyAt(Before, Caller)
        => /\ done.ret = "1"
           /\ ~lockDir
           /\ sibling = Before.sibling
           /\ groupDir = (Before.sibling = "held")

\* The holder has released its lock beside a sibling lock.
C19_Witness ==
    /\ ReturnedFrom("release") /\ VerifyAt(Before, Caller)
    /\ Before.sibling = "held" /\ sibling = "held"
    /\ groupDir /\ ~lockDir

\* ---- C14, C17
\* The acquired file the call found holds no "<host> <pid>" record.
Malformed ==
    /\ Before.lockedfile # NoFile
    /\ Len(Rec) # 2 \/ ~IntOK(Rec[2])

\* C14: verify() returns, true or false, with the disk as it was; true
\* exactly when the acquired file holds two tokens, the caller's host and
\* the caller's pid; a nohup caller matches a stored -1 alone.
C14_Verify ==
    ReturnedFrom("verify")
        => /\ done.ret \in {"0", "1"}
           /\ Untouched
           /\ done.ret = "1" <=>
                /\ Before.lockedfile # NoFile
                /\ Len(Rec) = 2
                /\ RecHost = hostname[Caller]
                /\ IntOK(Rec[2]) /\ RecPid = Pid(Caller)
           /\ Malformed \/ Before.lockedfile = NoFile => done.ret = "0"
           /\ nohup[Caller] /\ done.ret = "1" => Rec[2] = <<"-", "1">>

\* verify() of a nohup caller has refused the record "<its host> -2".
C14_Witness ==
    /\ ReturnedFrom("verify") /\ done.ret = "0"
    /\ nohup[Caller]
    /\ Rec = <<hostname[Caller], <<"-", "2">>>>

\* C17: on a malformed acquired record, cleanup() and release() raise
\* nothing, and cleanup() returns false with the lock directory in place.
C17_Malformed ==
    /\ Malformed
    /\ \/ ReturnedFrom("release")
       \/ ReturnedFrom("cleanup") /\ done.maxage = 0
    => /\ done.ret \in {"0", "1"}
       /\ done.method = "cleanup" => done.ret = "0" /\ Untouched

\* C13: __enter__ raises Denied exactly when verify() of the caller is false
\* at the end of entry, and returns with verify() true otherwise; after
\* __exit__ of an entered block the lock no longer holds the caller's record.
C13_Guard ==
    /\ ReturnedFrom("enter")
         => /\ done.ret \in {"self", "Denied"}
            /\ done.ret = "Denied" <=> ~Verify(Caller)
    /\ ReturnedFrom("exit") /\ seen # <<>> => ~Verify(Caller)

\* ---- C15, C16, C18
\* C15: the lock directory exists exactly when the pending file or the
\* acquired file exists.
C15_Layout == lockDir <=> (lockfile # NoFile \/ lockedfile # NoFile)

\* C16: the acquired file holds the complete record of the identity that
\* created it as the pending file.
C16_WholeRecord ==
    lockedfile # NoFile => data[lockedfile] = Record(lockedfile)

\* The acquired record is that of a running process of another identity
\* than p.
LiveForeign(p) ==
    \E q \in Procs : Running(q) /\ Verify(q) /\ Ident(q) # Ident(p)

\* C18: no rmtree of release() or of cleanup() without maxage removes the
\* lock directory of a running process of another identity.
C18_NoForeignDelete ==
    [][\A p \in Procs :
         /\ top[p] \in {"release", "cleanup"}
         /\ pc[p] \in {"rel_rmtree", "cl_rmtree"} /\ pc'[p] # pc[p]
         /\ lockDir /\ ~lockDir'
         => ~LiveForeign(p)]_vars

====
